---- MODULE Spec2Model ----
(***************************************************************************)
(* Model of the in-memory item registry of main.py: the list items_db and  *)
(* the five request handlers create_item, get_all_items, get_item,         *)
(* update_item and delete_item.                                            *)
(*                                                                         *)
(* Spec      one request at a time: every handler is one atomic action.    *)
(* SpecConc  the handlers as FastAPI runs plain "def" endpoints, on worker *)
(*           threads; a thread switch may fall between two iterations of   *)
(*           a handler's for loop and between the loop and the write that  *)
(*           follows it.                                                   *)
(*                                                                         *)
(* Prices are floats in the source; the model writes them in cents.        *)
(***************************************************************************)
EXTENDS Integers, Sequences, FiniteSets

\* ------------------------------------------------------------ bounds ----
MaxId == 2          \* ids are drawn from 1..MaxId
MaxLen == 3         \* a Create is issued only while the list stays this short
MaxConcLen == 2     \* the same cap for the requests that run on threads
MaxRequests == 4    \* requests that are started on threads in one run

\* ----------------------------------------------------- values and types ----
None == "None"                        \* Python's None

Ids == 1..MaxId

\* (name, price, description) of the request bodies that are tried
Variants ==
    { <<"Pen", 150, None>>, <<"Book", 999, "novel">>, <<"Book", 1200, None>> }

\* class Item(BaseModel): description defaults to None
Item(id, name, price, description) ==
    [id |-> id, name |-> name, price |-> price, description |-> description]

Items == { Item(i, v[1], v[2], v[3]) : i \in Ids, v \in Variants }

\* the request bodies tried by the requests that run on threads
ConcItems == { item \in Items : item.price < 1000 }

\* mutant: dict() that loses the optional field
ItemDict_nodescription(item) ==
    [id |-> item.id, name |-> item.name, price |-> item.price,
     description |-> None]

\* item.dict(): the four fields of the model, copied into a new dict
ItemDict(item) ==
    [id |-> item.id, name |-> item.name, price |-> item.price,
     description |-> item.description]

\* response_model=Item applied to a stored dict: Item(**d)
ItemOf(d) == Item(d["id"], d["name"], d["price"], d["description"])

\* response_model=List[Item] applied to the list
ItemsOf(db) == [i \in 1..Len(db) |-> ItemOf(db[i])]

\* HTTPException(status_code, detail) reaches the caller as {"detail": detail}
HTTPException(detail) == [detail |-> detail]

DuplicateDetail == HTTPException("Item with this ID already exists")
NotFoundDetail == HTTPException("Item not found")
DeletedMessage == [message |-> "Item deleted successfully"]

\* ------------------------------------------------------------- state ----
VARIABLES
    items_db,     \* the list of stored dicts
    last,         \* the request completed last: call, arguments, response, list before it
    createLog,    \* items of the Create calls so far, while only Creates with new ids were made
    onlyCreates,  \* TRUE while every mutating call so far was a Create with an id not created before
    everStored,   \* ids that some Create or Update has stored so far
    threads,      \* worker threads of SpecConc
    started       \* number of requests started on the threads

vars == <<items_db, last, createLog, onlyCreates, everStored, threads, started>>

\* ---------------------------------------------------------- handlers ----
\* "for idx, item in enumerate(items_db): if item["id"] == item_id": the
\* 1-based position of the first match at or after idx, 0 when the loop
\* runs off the end.
RECURSIVE FirstMatch(_, _, _)
FirstMatch(db, item_id, idx) ==
    IF idx > Len(db) THEN 0
    ELSE IF db[idx]["id"] = item_id THEN idx
    ELSE FirstMatch(db, item_id, idx + 1)

\* del items_db[idx]
DelAt(db, idx) ==
    [i \in 1..(Len(db) - 1) |-> IF i < idx THEN db[i] ELSE db[i + 1]]

Response(db, status, body) == [db |-> db, status |-> status, body |-> body]

\* mutant: the duplicate scan skips the first stored record
create_item_skipfirst(db, item) ==
    IF FirstMatch(db, item.id, 2) # 0
    THEN Response(db, 400, DuplicateDetail)
    ELSE Response(Append(db, ItemDict(item)), 200, item)

\* mutant: the new record is inserted at the head of the list
create_item_prepend(db, item) ==
    IF FirstMatch(db, item.id, 1) # 0
    THEN Response(db, 400, DuplicateDetail)
    ELSE Response(<<ItemDict(item)>> \o db, 200, item)

\* mutant: no duplicate scan at all
create_item_nocheck(db, item) ==
    Response(Append(db, ItemDict(item)), 200, item)

create_item(db, item) ==
    IF FirstMatch(db, item.id, 1) # 0
    THEN Response(db, 400, DuplicateDetail)
    ELSE Response(Append(db, ItemDict(item)), 200, item)

get_all_items(db) == Response(db, 200, ItemsOf(db))

\* mutant: a missing record is reported with Create's status code
get_item_400(db, item_id) ==
    LET idx == FirstMatch(db, item_id, 1) IN
    IF idx # 0
    THEN Response(db, 200, ItemOf(db[idx]))
    ELSE Response(db, 400, NotFoundDetail)

\* mutant: the record that is returned is taken out of the list
get_item_pop(db, item_id) ==
    LET idx == FirstMatch(db, item_id, 1) IN
    IF idx # 0
    THEN Response(DelAt(db, idx), 200, ItemOf(db[idx]))
    ELSE Response(db, 404, NotFoundDetail)

get_item(db, item_id) ==
    LET idx == FirstMatch(db, item_id, 1) IN
    IF idx # 0
    THEN Response(db, 200, ItemOf(db[idx]))
    ELSE Response(db, 404, NotFoundDetail)

\* mutant: a partial update, an absent description keeps the stored one
update_item_merge(db, item_id, updated_item) ==
    LET idx == FirstMatch(db, item_id, 1) IN
    IF idx # 0
    THEN Response([db EXCEPT ![idx] =
                      IF updated_item.description = None
                      THEN [ItemDict(updated_item) EXCEPT !["description"] = db[idx]["description"]]
                      ELSE ItemDict(updated_item)],
                  200, updated_item)
    ELSE Response(db, 404, NotFoundDetail)

\* mutant: the stored record keeps the id of the path
update_item_keepid(db, item_id, updated_item) ==
    LET idx == FirstMatch(db, item_id, 1) IN
    IF idx # 0
    THEN Response([db EXCEPT ![idx] = [ItemDict(updated_item) EXCEPT !["id"] = item_id]],
                  200, updated_item)
    ELSE Response(db, 404, NotFoundDetail)

update_item(db, item_id, updated_item) ==
    LET idx == FirstMatch(db, item_id, 1) IN
    IF idx # 0
    THEN Response([db EXCEPT ![idx] = ItemDict(updated_item)], 200, updated_item)
    ELSE Response(db, 404, NotFoundDetail)

\* mutant: the scan stops one record before the end of the list
delete_item_shortscan(db, item_id) ==
    LET idx == FirstMatch(SubSeq(db, 1, Len(db) - 1), item_id, 1) IN
    IF idx # 0
    THEN Response(DelAt(db, idx), 200, DeletedMessage)
    ELSE Response(db, 404, NotFoundDetail)

\* mutant: the last record with the id is removed instead of the first
delete_item_lastmatch(db, item_id) ==
    LET matches == { i \in 1..Len(db) : db[i]["id"] = item_id } IN
    IF matches # {}
    THEN Response(DelAt(db, CHOOSE i \in matches : \A k \in matches : k <= i),
                  200, DeletedMessage)
    ELSE Response(db, 404, NotFoundDetail)

delete_item(db, item_id) ==
    LET idx == FirstMatch(db, item_id, 1) IN
    IF idx # 0
    THEN Response(DelAt(db, idx), 200, DeletedMessage)
    ELSE Response(db, 404, NotFoundDetail)

\* ------------------------------------------------- one request at a time ----
NoItem == Item(0, "", 0, None)

Call(op, item_id, item, r) ==
    [op |-> op, item_id |-> item_id, item |-> item,
     status |-> r.status, body |-> r.body, pre |-> items_db]

IdleThread ==
    [pc |-> "idle", op |-> "none", item_id |-> 0, item |-> NoItem, idx |-> 0,
     status |-> 0, body |-> [detail |-> ""], fresh |-> FALSE, with |-> {},
     hit |-> 0]

Init ==
    /\ items_db = <<>>
    /\ last = [op |-> "none", item_id |-> 0, item |-> NoItem,
               status |-> 0, body |-> [detail |-> ""], pre |-> <<>>]
    /\ createLog = <<>>
    /\ onlyCreates = TRUE
    /\ everStored = {}
    /\ threads = [t \in {"worker1", "worker2"} |-> IdleThread]
    /\ started = 0

LogIds == { createLog[i].id : i \in 1..Len(createLog) }

Create ==
    \E item \in Items :
        LET r == create_item(items_db, item) IN
        /\ Len(r.db) <= MaxLen
        /\ items_db' = r.db
        /\ last' = Call("Create", item.id, item, r)
        /\ onlyCreates' = (onlyCreates /\ item.id \notin LogIds)
        /\ createLog' = IF onlyCreates' THEN Append(createLog, item) ELSE <<>>
        /\ everStored' = IF r.status = 200 THEN everStored \cup {item.id} ELSE everStored
        /\ UNCHANGED <<threads, started>>

ListAll ==
    LET r == get_all_items(items_db) IN
    /\ items_db' = r.db
    /\ last' = Call("ListAll", 0, NoItem, r)
    /\ UNCHANGED <<createLog, onlyCreates, everStored, threads, started>>

Get ==
    \E item_id \in Ids :
        LET r == get_item(items_db, item_id) IN
        /\ items_db' = r.db
        /\ last' = Call("Get", item_id, NoItem, r)
        /\ onlyCreates' = FALSE
        /\ createLog' = <<>>
        /\ UNCHANGED <<everStored, threads, started>>

Update ==
    \E item_id \in Ids, updated_item \in Items :
        LET r == update_item(items_db, item_id, updated_item) IN
        /\ items_db' = r.db
        /\ last' = Call("Update", item_id, updated_item, r)
        /\ onlyCreates' = FALSE
        /\ createLog' = <<>>
        /\ everStored' = IF r.status = 200 THEN everStored \cup {updated_item.id}
                         ELSE everStored
        /\ UNCHANGED <<threads, started>>

Delete ==
    \E item_id \in Ids :
        LET r == delete_item(items_db, item_id) IN
        /\ items_db' = r.db
        /\ last' = Call("Delete", item_id, NoItem, r)
        /\ onlyCreates' = FALSE
        /\ createLog' = <<>>
        /\ UNCHANGED <<everStored, threads, started>>

Next == Create \/ ListAll \/ Get \/ Update \/ Delete

Spec == Init /\ [][Next]_vars

\* the same, by callers whose Update bodies always carry the id of the path
UpdateSameId ==
    \E updated_item \in Items :
        LET r == update_item(items_db, updated_item.id, updated_item) IN
        /\ items_db' = r.db
        /\ last' = Call("Update", updated_item.id, updated_item, r)
        /\ onlyCreates' = FALSE
        /\ createLog' = <<>>
        /\ everStored' = IF r.status = 200 THEN everStored \cup {updated_item.id}
                         ELSE everStored
        /\ UNCHANGED <<threads, started>>

NextSameId == Create \/ ListAll \/ Get \/ UpdateSameId \/ Delete

SpecSameId == Init /\ [][NextSameId]_vars

\* ------------------------------------------------ requests on threads ----
\* FastAPI runs a plain "def" endpoint on a worker thread, and the handlers
\* take no lock: a thread switch can fall between two bytecodes. A thread
\* runs one request at a time; pc is its position in the handler:
\*   "scan"     in the for loop, idx is the position the iterator reads next
\*   "append"   create_item left its loop, items_db.append(...) comes next
\*   "replace"  update_item found a match at idx, items_db[idx] = ... comes next
\*   "remove"   delete_item found a match at idx, del items_db[idx] comes next
\*   "done"     the response is in status and body
Threads == {"worker1", "worker2"}

InFlight(t) == threads[t].pc \in {"scan", "append", "replace", "remove"}

\* the request of thread t starts: the handler is entered, the iterator is
\* at the first position; fresh says whether the list lacked item_id then,
\* with collects the threads whose requests overlap this one
Start(t, op, item_id, item) ==
    /\ ~ InFlight(t)
    /\ started < MaxRequests
    /\ started' = started + 1
    /\ threads' =
          [u \in Threads |->
              IF u = t
              THEN [pc |-> "scan", op |-> op, item_id |-> item_id, item |-> item,
                    idx |-> 1, status |-> 0, body |-> [detail |-> ""],
                    fresh |-> (FirstMatch(items_db, item_id, 1) = 0),
                    with |-> { v \in Threads : v # t /\ InFlight(v) },
                    hit |-> 0]
              ELSE IF InFlight(u)
              THEN [threads[u] EXCEPT !.with = @ \cup {t}]
              ELSE threads[u]]
    /\ UNCHANGED <<items_db, last, createLog, onlyCreates, everStored>>

Creating == { t \in Threads : InFlight(t) /\ threads[t].op = "Create" }

BeginCreate(t) ==
    \E item \in ConcItems :
        /\ Len(items_db) + Cardinality(Creating) < MaxConcLen
        /\ Start(t, "Create", item.id, item)

BeginListAll(t) == Start(t, "ListAll", 0, NoItem)

BeginGet(t) == \E item_id \in Ids : Start(t, "Get", item_id, NoItem)

BeginUpdate(t) ==
    \E item_id \in Ids, updated_item \in ConcItems :
        Start(t, "Update", item_id, updated_item)

BeginDelete(t) == \E item_id \in Ids : Start(t, "Delete", item_id, NoItem)

\* the handler returns or raises: its locals are gone, the response stays
Finish(t, status, body) ==
    threads' = [threads EXCEPT ![t].pc = "done", ![t].idx = 0,
                               ![t].status = status, ![t].body = body]

\* the same after a write: hit is the id of the record that the write
\* replaced or removed
FinishWrite(t, status, body, hit) ==
    threads' = [threads EXCEPT ![t].pc = "done", ![t].idx = 0,
                               ![t].status = status, ![t].body = body,
                               ![t].hit = hit]

\* one step of the list iterator of thread t: the loop ends when idx is past
\* the current end of the list, else the loop body runs on items_db[idx]
Iterate(t) ==
    LET th == threads[t] IN
    /\ th.pc = "scan"
    /\ IF th.idx > Len(items_db)
       THEN CASE th.op = "Create" -> threads' = [threads EXCEPT ![t].pc = "append"]
              [] th.op = "ListAll" -> Finish(t, 200, th.body)
              [] OTHER -> Finish(t, 404, NotFoundDetail)
       ELSE LET item == items_db[th.idx] IN
            CASE th.op = "ListAll" ->
                   threads' = [threads EXCEPT
                                 ![t].idx = @ + 1,
                                 ![t].body = IF th.idx = 1 THEN <<ItemOf(item)>>
                                             ELSE Append(th.body, ItemOf(item))]
              [] item["id"] # th.item_id ->
                   threads' = [threads EXCEPT ![t].idx = @ + 1]
              [] th.op = "Create" -> Finish(t, 400, DuplicateDetail)
              [] th.op = "Get" -> Finish(t, 200, ItemOf(item))
              [] th.op = "Update" -> threads' = [threads EXCEPT ![t].pc = "replace"]
              [] OTHER -> threads' = [threads EXCEPT ![t].pc = "remove"]
    /\ UNCHANGED <<items_db, last, createLog, onlyCreates, everStored, started>>

\* items_db.append(item.dict()); return item
AppendStep(t) ==
    LET th == threads[t] IN
    /\ th.pc = "append"
    /\ items_db' = Append(items_db, ItemDict(th.item))
    /\ Finish(t, 200, th.item)
    /\ UNCHANGED <<last, createLog, onlyCreates, everStored, started>>

\* the unhandled IndexError of a write past the end of the list
InternalServerError == [detail |-> "Internal Server Error"]

\* items_db[idx] = updated_item.dict(); return updated_item
ReplaceStep(t) ==
    LET th == threads[t] IN
    /\ th.pc = "replace"
    /\ IF th.idx <= Len(items_db)
       THEN /\ items_db' = [items_db EXCEPT ![th.idx] = ItemDict(th.item)]
            /\ FinishWrite(t, 200, th.item, items_db[th.idx]["id"])
       ELSE /\ items_db' = items_db
            /\ Finish(t, 500, InternalServerError)
    /\ UNCHANGED <<last, createLog, onlyCreates, everStored, started>>

\* del items_db[idx]; return {"message": ...}
RemoveStep(t) ==
    LET th == threads[t] IN
    /\ th.pc = "remove"
    /\ IF th.idx <= Len(items_db)
       THEN /\ items_db' = DelAt(items_db, th.idx)
            /\ FinishWrite(t, 200, DeletedMessage, items_db[th.idx]["id"])
       ELSE /\ items_db' = items_db
            /\ Finish(t, 500, InternalServerError)
    /\ UNCHANGED <<last, createLog, onlyCreates, everStored, started>>

NextConc ==
    \E t \in Threads :
        \/ BeginCreate(t)
        \/ BeginListAll(t)
        \/ BeginGet(t)
        \/ BeginUpdate(t)
        \/ BeginDelete(t)
        \/ Iterate(t)
        \/ AppendStep(t)
        \/ ReplaceStep(t)
        \/ RemoveStep(t)

SpecConc == Init /\ [][NextConc]_vars

\* ------------------------------------------------------------ claims ----
\* Spec: properties of last (the call completed last, its response and the
\* list before it) and items_db (the list after it).

\* C1: in every state reachable by Create, ListAll, Get, Update and Delete
\* calls, also with an Update whose body id differs from the path id, no two
\* stored records have the same id.
C1_AtMostOnePerId ==
    \A i, j \in 1..Len(items_db) :
        i # j => items_db[i]["id"] # items_db[j]["id"]

\* C2: a Create whose id is already stored answers 400 DuplicateKey and
\* leaves the list as it was; any other Create answers 200 with the item
\* unchanged and the list is the old list with the item appended at the end,
\* one record longer.
C2_CreateContract ==
    last.op = "Create" =>
        IF \E i \in 1..Len(last.pre) : last.pre[i]["id"] = last.item.id
        THEN /\ last.status = 400
             /\ last.body = DuplicateDetail
             /\ items_db = last.pre
        ELSE /\ last.status = 200
             /\ last.body = last.item
             /\ Len(items_db) = Len(last.pre) + 1
             /\ SubSeq(items_db, 1, Len(last.pre)) = last.pre
             /\ items_db[Len(items_db)] =
                    [id |-> last.item.id, name |-> last.item.name,
                     price |-> last.item.price,
                     description |-> last.item.description]

C2_Witness ==
    /\ last.op = "Create"
    /\ last.status = 400
    /\ Len(last.pre) >= 2
    /\ last.pre[2]["id"] = last.item.id
    /\ last.pre[2]["name"] # last.item.name

\* C3: after a Delete(id) that answered 200, a Get(id) made next answers 404
\* and the list is exactly one record shorter than before the Delete.
C3_DeleteThenGet ==
    (last.op = "Delete" /\ last.status = 200) =>
        /\ get_item(items_db, last.item_id).status = 404
        /\ Len(items_db) = Len(last.pre) - 1

\* C4: Get, Update and Delete answer 404 NotFound exactly when no stored
\* record has the id of the path; in particular for an id that was never
\* stored and for an id whose record was deleted and not stored again.
C4_NotFoundIff ==
    last.op \in {"Get", "Update", "Delete"} =>
        /\ (last.status = 404 /\ last.body = NotFoundDetail)
              <=> ~ \E i \in 1..Len(last.pre) : last.pre[i]["id"] = last.item_id
        /\ last.item_id \notin everStored => last.status = 404
        /\ last.status \in {200, 404}

C4_Witness ==
    /\ last.op = "Delete"
    /\ last.status = 404
    /\ last.item_id \in everStored
    /\ Len(last.pre) >= 1

\* C5: after Create calls with pairwise distinct ids on the empty list,
\* ListAll returns exactly the items of those calls, each once, in the order
\* of the calls.
C5_ListInCallOrder ==
    (last.op = "ListAll" /\ onlyCreates) =>
        /\ last.status = 200
        /\ last.body = createLog

C5_Witness ==
    /\ last.op = "ListAll"
    /\ onlyCreates
    /\ Len(createLog) >= 2
    /\ createLog[1].id > createLog[2].id

\* C6: after an Update(id, X) with X.id = id that answered 200, a Get(id)
\* made next answers 200 with a record whose id, name, price and description
\* are those of X.
C6_UpdateThenGet ==
    (last.op = "Update" /\ last.status = 200 /\ last.item.id = last.item_id) =>
        LET g == get_item(items_db, last.item_id) IN
        /\ g.status = 200
        /\ g.body.id = last.item.id
        /\ g.body.name = last.item.name
        /\ g.body.price = last.item.price
        /\ g.body.description = last.item.description

C6_Witness ==
    /\ last.op = "Update"
    /\ last.status = 200
    /\ last.item.id = last.item_id
    /\ Len(last.pre) >= 2
    /\ last.pre[2]["id"] = last.item_id
    /\ last.pre[1]["id"] # last.item_id
    /\ last.pre[2] # ItemDict(last.item)

C8_UpdateReplacesInPlace ==
    (last.op = "Update" /\ last.status = 200) =>
        \E p \in 1..Len(last.pre) :
            /\ last.pre[p]["id"] = last.item_id
            /\ \A q \in 1..(p - 1) : last.pre[q]["id"] # last.item_id
            /\ Len(items_db) = Len(last.pre)
            /\ items_db[p] =
                   [id |-> last.item.id, name |-> last.item.name,
                    price |-> last.item.price,
                    description |-> last.item.description]
            /\ \A q \in 1..Len(last.pre) : q # p => items_db[q] = last.pre[q]
            /\ last.body = last.item

C8_Witness ==
    /\ last.op = "Update"
    /\ last.status = 200
    /\ last.item.id # last.item_id
    /\ Len(last.pre) >= 2
    /\ items_db[2]["id"] = last.item.id
    /\ last.pre[2]["id"] = last.item_id

\* C9: every call ends with one outcome of its own kind: ListAll answers
\* 200; Create answers 200 or 400 DuplicateKey, never 404; Get, Update and
\* Delete answer 200 or 404 NotFound, never 400; there is no other outcome.
C9_OutcomeKinds ==
    /\ last.op = "ListAll" => last.status = 200
    /\ last.op = "Create" =>
          \/ last.status = 200 /\ last.body = last.item
          \/ last.status = 400 /\ last.body = DuplicateDetail
    /\ last.op \in {"Get", "Update", "Delete"} =>
          \/ last.status = 200 /\ last.body # NotFoundDetail
          \/ last.status = 404 /\ last.body = NotFoundDetail
    /\ last.op # "none" => last.status \in {200, 400, 404}

C9_Witness ==
    /\ last.op = "Get"
    /\ last.status = 404
    /\ Len(last.pre) >= 1

\* SpecConc: properties of the responses of requests that ran on threads.

\* C10: requests issued concurrently behave as if run one at a time: of two
\* overlapping Create calls with the same id, both started on a list that
\* lacks that id, exactly one answers 200 and the other 400 DuplicateKey.
C10_ConcurrentCreates ==
    \A t, u \in Threads :
        ( /\ t # u
          /\ threads[t].pc = "done" /\ threads[u].pc = "done"
          /\ threads[t].op = "Create" /\ threads[u].op = "Create"
          /\ threads[t].item_id = threads[u].item_id
          /\ threads[t].fresh /\ threads[u].fresh
          /\ u \in threads[t].with /\ t \in threads[u].with )
        => \/ threads[t].status = 200 /\ threads[u].status = 400
           \/ threads[t].status = 400 /\ threads[u].status = 200

\* C11: an Update(id, X) or Delete(id) that runs while another Create,
\* Update or Delete is in flight still writes to a position that holds a
\* record with that id: it never answers with the error of an index past the
\* end of the list, and the record it replaced or removed had the id of its
\* path.
C11_WriteHitsOwnRecord ==
    \A t \in Threads :
        (threads[t].pc = "done" /\ threads[t].op \in {"Update", "Delete"}) =>
            /\ threads[t].status # 500
            /\ threads[t].status = 200 => threads[t].hit = threads[t].item_id

\* SpecSameId: every Update carries the id of its path in its body.

\* C12: when every Update(id, X) has X.id = id, the ids of the stored
\* records are pairwise distinct in every state reached by Create, Update and
\* Delete calls made one at a time.
C12_DistinctIdsSameIdUpdates ==
    \A i, j \in 1..Len(items_db) :
        i < j => items_db[i]["id"] # items_db[j]["id"]

C12_Witness ==
    /\ last.op = "Update"
    /\ last.status = 200
    /\ Len(items_db) >= 2
    /\ items_db[2]["id"] = last.item_id
    /\ items_db[2] # last.pre[2]
    /\ everStored = Ids

\* Spec again.

\* C13: the list changes only through a Create, Update or Delete that
\* answered 200: ListAll, Get with either outcome, and an Update or Delete
\* that answered 404 leave contents, order and length of the list as they
\* were.
C13_OnlySuccessfulWritesChange ==
    /\ last.op \in {"ListAll", "Get"} => items_db = last.pre
    /\ (last.op \in {"Update", "Delete"} /\ last.status = 404) => items_db = last.pre
    /\ items_db # last.pre =>
          last.op \in {"Create", "Update", "Delete"} /\ last.status = 200

C13_Witness ==
    /\ last.op = "Update"
    /\ last.status = 404
    /\ Len(last.pre) >= 2
    /\ items_db = last.pre

\* C14: Get, Update and Delete act on the first record in list order whose
\* id is the id of the path, also when several records have that id; a
\* Delete that answered 200 removes that one record and keeps the others
\* unchanged in their order; Create adds at the end and Update keeps every
\* position, so the list stays in the order of creation and ListAll returns
\* it in that order.
C14_FirstMatchInOrder ==
    LET matches == { i \in 1..Len(last.pre) : last.pre[i]["id"] = last.item_id }
        first == CHOOSE p \in matches : \A k \in matches : p <= k
    IN
    /\ (last.op = "Get" /\ last.status = 200) =>
          last.body = ItemOf(last.pre[first])
    /\ (last.op = "Update" /\ last.status = 200) =>
          /\ Len(items_db) = Len(last.pre)
          /\ \A q \in 1..Len(last.pre) :
                items_db[q] = IF q = first THEN ItemDict(last.item) ELSE last.pre[q]
    /\ (last.op = "Delete" /\ last.status = 200) =>
          /\ Len(items_db) = Len(last.pre) - 1
          /\ \A q \in 1..Len(items_db) :
                items_db[q] = IF q < first THEN last.pre[q] ELSE last.pre[q + 1]
    /\ (last.op = "Create" /\ last.status = 200) =>
          SubSeq(items_db, 1, Len(last.pre)) = last.pre
    /\ last.op = "ListAll" =>
          /\ Len(last.body) = Len(last.pre)
          /\ \A q \in 1..Len(last.pre) : last.body[q] = ItemOf(last.pre[q])

C14_Witness ==
    /\ last.op = "Delete"
    /\ last.status = 200
    /\ Len(last.pre) >= 3
    /\ last.pre[1]["id"] # last.item_id
    /\ last.pre[2]["id"] = last.item_id
    /\ last.pre[3]["id"] = last.item_id
    /\ last.pre[2] # last.pre[3]
    /\ items_db = <<last.pre[1], last.pre[3]>>

====
